---- MODULE Spec2Model ----
(***************************************************************************)
(* GeoPlanetFormatter (scripts/geodata/geoplanet/geoplanet_training_data.py) *)
(* as a state machine: the constructor that builds the alias index, the    *)
(* ancestor walk, the per-postal-code aggregation into language buckets,   *)
(* the country-name injection and the cartesian-product generator consumed *)
(* by build_training_data.                                                 *)
(*                                                                         *)
(* Names are sequences of one-character strings so that cleanup_name is    *)
(* computed character by character.  SQL NULL / Python None in a language  *)
(* column is the value NoLang; the dictionary key None is the value None.  *)
(***************************************************************************)
EXTENDS Integers, Sequences, FiniteSets, TLC

----------------------------------------------------------------------------
(* Bounds of the explored inputs *)

MaxAliasRows == 2
MaxNameLen == 2
MaxPostalCodes == 2
MaxHops == 5

----------------------------------------------------------------------------
(* Static tables of the class *)

NoLang == "NULL"
None == "None"
NoName == <<"<none>">>

language_codes ==
    [ENG |-> "en", JPN |-> "ja", GER |-> "de", SPA |-> "es", FRE |-> "fr",
     UNK |-> "unk", ITA |-> "it", POR |-> "pt", POL |-> "pl", ARA |-> "ar",
     CZE |-> "cs", SWE |-> "sv", CHI |-> "zh", RUM |-> "ro", FIN |-> "fi",
     DUT |-> "nl", NOR |-> "nb", DAN |-> "da", HUN |-> "hu", KOR |-> "kr"]

place_types ==
    [Continent |-> "world_region", Country |-> "country",
     CountryRegion |-> "country_region", State |-> "state",
     County |-> "state_district", Island |-> "island", Town |-> "city",
     LocalAdmin |-> "city_district", Suburb |-> "suburb"]

COUNTRY == "country"
POSTCODE == "postcode"

ROOT_ID == 1

----------------------------------------------------------------------------
(* Program state *)

VARIABLES
    places,                 \* table places: id -> row[1:]
    alias_rows,             \* table aliases, in row order
    postal_codes,           \* table postal_codes, in row order
    country_names,          \* the country-name resolver's answers
    aliases,                \* self.aliases
    pc,                     \* position of the program
    result,                 \* value returned by the last direct call
    ret,                    \* where get_place_hierarchy returns to
    all_places, place_id, original_place_id,      \* get_place_hierarchy frame
    row, country, language, original_language,    \* format_postal_codes frame
    have_default_language, language_places,
    hpos, apos, todo, bucket, tuples,
    n_full, n_dropout, last, written,
    out                     \* (postal code row, bucket key, language) of every record yielded

dbVars == <<places, alias_rows, postal_codes, country_names>>
walkVars == <<all_places, place_id, original_place_id>>
aggVars == <<row, country, language, original_language,
             have_default_language, language_places, hpos, apos>>
genVars == <<todo, bucket, tuples, n_full, n_dropout, last, written>>
vars == <<dbVars, aliases, pc, result, ret, walkVars, aggVars, genVars, out>>

----------------------------------------------------------------------------
(* Helpers on sequences and sets *)

Range(s) == {s[k] : k \in 1..Len(s)}

Perms(S) ==
    {s \in [1..Cardinality(S) -> S] : \A a, b \in 1..Cardinality(S) : s[a] = s[b] => a = b}

RECURSIVE Filter(_, _)
Filter(s, S) ==
    IF s = <<>> THEN <<>>
    ELSE IF Head(s) \in S THEN <<Head(s)>> \o Filter(Tail(s), S)
    ELSE Filter(Tail(s), S)

SeqsUpTo(S, n) == UNION {[1..k -> S] : k \in 0..n}

----------------------------------------------------------------------------
(* __init__: the alias index *)

\* Rank of a language value under "order by language": NULL sorts first,
\* then the codes in binary collation order.
LangOrder == <<NoLang, "ARA", "CHI", "CZE", "DAN", "DUT", "ENG", "FIN", "FRE",
               "GER", "HUN", "ITA", "JPN", "KOR", "NOR", "POL", "POR", "RUM",
               "SPA", "SWE", "UNK", "XXX">>

LangRank(l) == CHOOSE k \in 1..Len(LangOrder) : LangOrder[k] = l

\* case name_type when "P" then 1 ... else 6
NameTypeRank(t) ==
    CASE t = "P" -> 1
      [] t = "Q" -> 2
      [] t = "V" -> 3
      [] t = "A" -> 4
      [] t = "S" -> 5
      [] OTHER -> 6

\* The join without its language comparison: every alias of a State/County.
ForeignAdminJoin_AnyLanguage(a) ==
    /\ a.id \in DOMAIN places
    /\ places[a.id].place_type \in {"State", "County"}

\* The left join's ON clause: a State/County place whose language differs
\* (a comparison with NULL is not true).
ForeignAdminJoin(a) ==
    /\ a.id \in DOMAIN places
    /\ places[a.id].place_type \in {"State", "County"}
    /\ a.language # NoLang
    /\ places[a.id].language # NoLang
    /\ a.language # places[a.id].language

\* Rows selected by the first query.
Pass1Selected ==
    {k \in 1..Len(alias_rows) :
        /\ alias_rows[k].name_type # "S"
        /\ alias_rows[k].name_type # "V"
        /\ ~ForeignAdminJoin(alias_rows[k])}

\* order by id, language: the name_type key left out.
Pass1KeyLeq_NoPriority(a, b) ==
    \/ a.id < b.id
    \/ a.id = b.id /\ LangRank(a.language) <= LangRank(b.language)

\* order by id, language, case name_type ...
Pass1KeyLeq(a, b) ==
    \/ a.id < b.id
    \/ /\ a.id = b.id
       /\ \/ LangRank(a.language) < LangRank(b.language)
          \/ /\ LangRank(a.language) = LangRank(b.language)
             /\ NameTypeRank(a.name_type) <= NameTypeRank(b.name_type)

\* The orders in which the first query may deliver its rows: any order that
\* respects the ORDER BY keys.
Pass1Orders ==
    {s \in Perms(Pass1Selected) :
        \A a, b \in 1..Len(s) :
            a < b => Pass1KeyLeq(alias_rows[s[a]], alias_rows[s[b]])}

\* Rows selected by the second query (inner join, a.language = p.language).
Pass2Selected ==
    {k \in 1..Len(alias_rows) :
        /\ alias_rows[k].id \in DOMAIN places
        /\ alias_rows[k].name_type = "V"
        /\ alias_rows[k].language # NoLang
        /\ alias_rows[k].language = places[alias_rows[k].id].language}

\* The arguments on which the affix stripper and the equivalence tester are
\* consulted for a row of the second query.
EquivArgs(k) ==
    <<places[alias_rows[k].id].name, alias_rows[k].name, alias_rows[k].language>>

\* row[1:] of an aliases row
AliasTail(k) ==
    [name |-> alias_rows[k].name,
     name_type |-> alias_rows[k].name_type,
     language |-> alias_rows[k].language]

RECURSIVE Tails(_)
Tails(s) == IF s = <<>> THEN <<>> ELSE <<AliasTail(Head(s))>> \o Tails(Tail(s))

\* self.aliases after both loops, for one delivery order of each query and
\* one answer set eq of the equivalence tester.
BuildAliases(o1, o2, eq) ==
    LET kept1(id) == {k \in Range(o1) : alias_rows[k].id = id /\ id \in DOMAIN places}
        kept2(id) == {k \in Range(o2) : alias_rows[k].id = id /\ EquivArgs(k) \in eq}
        keys == {id \in DOMAIN places : kept1(id) \cup kept2(id) # {}}
    IN  [id \in keys |-> Tails(Filter(o1, kept1(id))) \o Tails(Filter(o2, kept2(id)))]

Construct ==
    /\ pc = "new"
    /\ IF \E k \in Pass2Selected : alias_rows[k].language \notin DOMAIN language_codes
       THEN /\ pc' = "crashed"
            /\ aliases' = aliases
       ELSE /\ \E o1 \in Pass1Orders, o2 \in Perms(Pass2Selected),
                  eq \in SUBSET {EquivArgs(k) : k \in Pass2Selected} :
                    aliases' = BuildAliases(o1, o2, eq)
            /\ pc' = "ready"
    /\ UNCHANGED <<dbVars, result, ret, walkVars, aggVars, genVars, out>>

get_aliases(id) == IF id \in DOMAIN aliases THEN aliases[id] ELSE <<>>

\* get_aliases called directly on the constructed object.
GetAliases(id) ==
    /\ pc = "ready"
    /\ result' = [op |-> "get_aliases", arg |-> id, value |-> get_aliases(id)]
    /\ UNCHANGED <<dbVars, aliases, pc, ret, walkVars, aggVars, genVars, out>>

cleanup_chars == {" ", ",", "-"}

RECURSIVE LStrip(_)
LStrip(s) ==
    IF s # <<>> /\ Head(s) \in cleanup_chars THEN LStrip(Tail(s)) ELSE s

RECURSIVE RStrip(_)
RStrip(s) ==
    IF s # <<>> /\ s[Len(s)] \in cleanup_chars
    THEN RStrip(SubSeq(s, 1, Len(s) - 1)) ELSE s

cleanup_name(name) == RStrip(LStrip(name))

----------------------------------------------------------------------------
(* get_place_hierarchy *)

\* (place_id,) + place
HierarchyRow(id) ==
    [place_id |-> id, country |-> places[id].country, name |-> places[id].name,
     language |-> places[id].language, place_type |-> places[id].place_type,
     parent_id |-> places[id].parent_id]

\* Lines 150-154: the lookup of the leaf, which raises KeyError on an unknown id.
EnterHierarchy(id, r) ==
    IF id \notin DOMAIN places
    THEN /\ pc' = "crashed"
         /\ UNCHANGED <<ret, walkVars>>
    ELSE /\ pc' = "walk"
         /\ ret' = r
         /\ original_place_id' = id
         /\ all_places' = <<HierarchyRow(id)>>
         /\ place_id' = places[id].parent_id

\* get_place_hierarchy called directly on the constructed object.
GetPlaceHierarchy(id) ==
    /\ pc = "ready"
    /\ EnterHierarchy(id, "caller")
    /\ UNCHANGED <<dbVars, aliases, result, aggVars, genVars, out>>

\* One iteration of the while loop (the hop count is capped at MaxHops).
WalkStep ==
    /\ pc = "walk"
    /\ place_id # ROOT_ID /\ place_id # original_place_id
    /\ Len(all_places) < MaxHops
    /\ IF place_id \notin DOMAIN places
       THEN /\ pc' = "crashed"
            /\ UNCHANGED walkVars
       ELSE /\ all_places' = Append(all_places, HierarchyRow(place_id))
            /\ place_id' = places[place_id].parent_id
            /\ pc' = pc
            /\ UNCHANGED original_place_id
    /\ UNCHANGED <<dbVars, aliases, result, ret, aggVars, genVars, out>>

EmptyDict == <<>>

\* The loop ends and the list is returned: to the direct caller, or into
\* format_postal_codes, which goes on with lines 177-183.
WalkReturn ==
    /\ pc = "walk"
    /\ place_id = ROOT_ID \/ place_id = original_place_id
    /\ IF ret = "caller"
       THEN /\ pc' = "ready"
            /\ result' = [op |-> "get_place_hierarchy", arg |-> original_place_id,
                          value |-> all_places]
            /\ UNCHANGED aggVars
       ELSE /\ pc' = "places"
            /\ language_places' = (None :> EmptyDict)
            /\ original_language' = language
            /\ have_default_language' = FALSE
            /\ hpos' = 1
            /\ apos' = 0
            /\ UNCHANGED <<result, row, country, language>>
    /\ UNCHANGED <<dbVars, aliases, ret, walkVars, genVars, out>>

----------------------------------------------------------------------------
(* build_training_data and format_postal_codes *)

\* str.lower() on the country codes in use
Lower(c) ==
    CASE c = "US" -> "us"
      [] c = "FR" -> "fr"
      [] OTHER -> c

\* country_names.localized_name(country, language)
localized_name(c, l) ==
    IF <<c, l>> \in DOMAIN country_names.localized
    THEN country_names.localized[<<c, l>>] ELSE NoName

\* country_names.alpha3_code(country)
alpha3_code(c) ==
    IF c \in DOMAIN country_names.alpha3 THEN country_names.alpha3[c] ELSE NoName

PostcodeRow == postal_codes[row]

\* language_places.setdefault(key, defaultdict(set)); language_places[key][cat].add(name)
AddName(lp, key, cat, name) ==
    LET b == IF key \in DOMAIN lp THEN lp[key] ELSE EmptyDict
        old == IF cat \in DOMAIN b THEN b[cat] ELSE {}
    IN  (key :> ((cat :> (old \cup {name})) @@ b)) @@ lp

\* Lines 253-260: the output file is opened and the generator is started.
BuildTrainingData ==
    /\ pc = "ready"
    /\ pc' = "postal_codes"
    /\ written' = 0
    /\ UNCHANGED <<dbVars, aliases, result, ret, walkVars, aggVars,
                   todo, bucket, tuples, n_full, n_dropout, last, out>>

\* Lines 169-175: the next postal_codes row, up to the lookup of its place.
NextPostalCode ==
    /\ pc = "postal_codes"
    /\ row < Len(postal_codes)
    /\ row' = row + 1
    /\ LET p == postal_codes[row + 1]
       IN  IF p.language \notin DOMAIN language_codes
           THEN /\ pc' = "crashed"
                /\ UNCHANGED <<country, language, ret, walkVars>>
           ELSE /\ country' = Lower(p.country)
                /\ language' = language_codes[p.language]
                /\ EnterHierarchy(p.parent_id, "format")
    /\ UNCHANGED <<dbVars, aliases, result, original_language,
                   have_default_language, language_places, hpos, apos, genVars, out>>

\* The generator is exhausted and build_training_data returns.
EndOfPostalCodes ==
    /\ pc = "postal_codes"
    /\ row = Len(postal_codes)
    /\ pc' = "done"
    /\ UNCHANGED <<dbVars, aliases, result, ret, walkVars, aggVars, genVars, out>>

\* Where the loops of lines 185-215 continue after alias a of place h.
Advance(h, a, lp) ==
    IF a < Len(get_aliases(all_places[h].place_id))
    THEN /\ pc' = "aliases"
         /\ hpos' = h
         /\ apos' = a + 1
         /\ todo' = todo
    ELSE IF h < Len(all_places)
    THEN /\ pc' = "places"
         /\ hpos' = h + 1
         /\ apos' = 0
         /\ todo' = todo
    ELSE /\ pc' = "buckets"
         /\ hpos' = h
         /\ apos' = a
         /\ todo' = DOMAIN lp

\* Lines 185-201: one place of the hierarchy.
AggregatePlace ==
    /\ pc = "places"
    /\ LET h == all_places[hpos]
           first == ~have_default_language /\ h.language # PostcodeRow.language
       IN  IF \/ first /\ h.language \notin DOMAIN language_codes
              \/ h.place_type \notin DOMAIN place_types
           THEN /\ pc' = "crashed"
                /\ UNCHANGED <<country, language, have_default_language,
                               language_places, hpos, apos, todo>>
           ELSE /\ country' = Lower(h.country)
                /\ language' = IF first THEN language_codes[h.language] ELSE language
                /\ have_default_language' = (have_default_language \/ first)
                /\ language_places' = AddName(language_places, None,
                                              place_types[h.place_type],
                                              cleanup_name(h.name))
                /\ Advance(hpos, 0, language_places')
    /\ UNCHANGED <<dbVars, aliases, result, ret, walkVars, row, original_language,
                   bucket, tuples, n_full, n_dropout, last, written, out>>

\* The bucket key without the test lang != 'UNK'.
AliasBucket_NoUnknownTest(alias_lang, lang) ==
    LET al == IF alias_lang = NoLang THEN "UNK" ELSE alias_lang
    IN  IF al = lang THEN None
        ELSE IF al \in DOMAIN language_codes THEN language_codes[al]
        ELSE "KeyError"

\* Lines 203-208: the bucket key of an alias of a place with language lang;
\* "KeyError" when the alias language is not in language_codes.
AliasBucket(alias_lang, lang) ==
    LET al == IF alias_lang = NoLang THEN "UNK" ELSE alias_lang
    IN  IF al = lang /\ lang # "UNK" THEN None
        ELSE IF al \in DOMAIN language_codes THEN language_codes[al]
        ELSE "KeyError"

\* Lines 202-215: one alias of the current place.
AggregateAlias ==
    /\ pc = "aliases"
    /\ LET h == all_places[hpos]
           a == get_aliases(h.place_id)[apos]
           key == AliasBucket(a.language, h.language)
       IN  IF key = "KeyError"
           THEN /\ pc' = "crashed"
                /\ UNCHANGED <<language_places, hpos, apos, todo>>
           ELSE /\ language_places' = AddName(language_places, key,
                                              place_types[h.place_type],
                                              cleanup_name(a.name))
                /\ Advance(hpos, apos, language_places')
    /\ UNCHANGED <<dbVars, aliases, result, ret, walkVars, row, country, language,
                   original_language, have_default_language,
                   bucket, tuples, n_full, n_dropout, last, written, out>>

\* An enumeration of a finite set, standing for its iteration order.
RECURSIVE SetToSeq(_)
SetToSeq(S) ==
    IF S = {} THEN <<>>
    ELSE LET x == CHOOSE x \in S : TRUE IN <<x>> \o SetToSeq(S \ {x})

RECURSIVE Extend(_, _, _)
Extend(c, vals, rest) ==
    IF vals = <<>> THEN <<>>
    ELSE [k \in 1..Len(rest) |-> (c :> Head(vals)) @@ rest[k]] \o Extend(c, Tail(vals), rest)

\* zip(*all_values) in place of the product: one value of every category.
Product_Zip(cp) == <<[c \in DOMAIN cp |-> CHOOSE v \in cp[c] : TRUE]>>

\* zip(keys, values) for every values of itertools.product(*all_values)
RECURSIVE Product(_)
Product(cp) ==
    IF DOMAIN cp = {} THEN <<EmptyDict>>
    ELSE LET c == CHOOSE c \in DOMAIN cp : TRUE
         IN  Extend(c, SetToSeq(cp[c]), Product([d \in DOMAIN cp \ {c} |-> cp[d]]))

\* Lines 221-226: the country names added to a bucket emitted under lang.
InjectedNames(lang) ==
    (IF localized_name(country, lang) # NoName
     THEN {localized_name(country, lang)} ELSE {})
    \cup
    (IF alpha3_code(country) # NoName /\ lang \in {None, "ENG"}
     THEN {alpha3_code(country)} ELSE {})

\* Lines 217-229: the next bucket of language_places, in dictionary order.
InjectCountry(k) ==
    /\ pc = "buckets"
    /\ k \in todo
    /\ LET lang == IF k = None THEN original_language ELSE k
           old == IF COUNTRY \in DOMAIN language_places[k]
                  THEN language_places[k][COUNTRY] ELSE {}
           cp == IF InjectedNames(lang) = {} THEN language_places[k]
                 ELSE (COUNTRY :> (old \cup InjectedNames(lang))) @@ language_places[k]
       IN  /\ language' = lang
           /\ language_places' = [language_places EXCEPT ![k] = cp]
           /\ tuples' = Product(cp)
    /\ bucket' = k
    /\ todo' = todo \ {k}
    /\ n_full' = 0
    /\ n_dropout' = 0
    /\ pc' = "product"
    /\ UNCHANGED <<dbVars, aliases, result, ret, walkVars, row, country,
                   original_language, have_default_language, hpos, apos,
                   last, written, out>>

\* What place_config.dropout_components may hand back: the components
\* themselves, the components without one of the place categories, or the
\* postcode alone.
DropoutResults(components) ==
    LET D == DOMAIN components
        keep(K) == [c \in K |-> components[c]]
    IN  {keep(D)} \cup {keep(D \ {c}) : c \in D \ {POSTCODE}} \cup {keep(D \cap {POSTCODE})}

\* not formatted or not formatted.strip(), the address text standing for the
\* values the formatter was given
Blank(components) ==
    \A c \in DOMAIN components : \A k \in 1..Len(components[c]) : components[c][k] = " "

Record(kind, components) ==
    [kind |-> kind, language |-> language, country |-> country, components |-> components]

\* Lines 231-250 with the consumer's lines 262-276: one tuple of the product
\* is yielded, then its dropout variant if it differs and keeps two components.
EmitVariant ==
    /\ pc = "product"
    /\ tuples # <<>>
    /\ LET components == Head(tuples) @@ (POSTCODE :> PostcodeRow.code)
       IN  \E reduced \in DropoutResults(components) :
             LET second == /\ Cardinality(DOMAIN reduced) > 1
                           /\ DOMAIN reduced # DOMAIN components
             IN  /\ n_full' = n_full + 1
                 /\ n_dropout' = n_dropout + (IF second THEN 1 ELSE 0)
                 /\ last' = IF second THEN Record("dropout", reduced)
                            ELSE Record("full", components)
                 /\ written' = written + (IF Blank(components) THEN 0 ELSE 1)
                                       + (IF second /\ ~Blank(reduced) THEN 1 ELSE 0)
    /\ out' = out \cup {[row |-> row, bucket |-> bucket, language |-> language]}
    /\ tuples' = Tail(tuples)
    /\ pc' = IF Tail(tuples) # <<>> THEN pc
             ELSE IF todo # {} THEN "buckets" ELSE "postal_codes"
    /\ UNCHANGED <<dbVars, aliases, result, ret, walkVars, aggVars, todo, bucket>>

----------------------------------------------------------------------------
(* Initial states *)

NoResult == [op |-> "none", arg |-> 0, value |-> <<>>]

NoRecord == [kind |-> "none", language |-> None, country |-> "", components |-> <<>>]

\* Nothing has been called yet: every frame is empty.
FramesEmpty ==
    /\ aliases = <<>>
    /\ pc = "new"
    /\ result = NoResult
    /\ ret = "caller"
    /\ all_places = <<>>
    /\ place_id = 0
    /\ original_place_id = 0
    /\ row = 0
    /\ country = ""
    /\ language = None
    /\ original_language = None
    /\ have_default_language = FALSE
    /\ language_places = <<>>
    /\ hpos = 0
    /\ apos = 0
    /\ todo = {}
    /\ bucket = None
    /\ tuples = <<>>
    /\ n_full = 0
    /\ n_dropout = 0
    /\ last = NoRecord
    /\ written = 0
    /\ out = {}

Place(c, n, l, t, p) ==
    [country |-> c, name |-> n, language |-> l, place_type |-> t, parent_id |-> p]

Alias(id, n, t, l) == [id |-> id, name |-> n, name_type |-> t, language |-> l]

NoCountryNames == [localized |-> <<>>, alpha3 |-> NoName]

\* Databases for the alias index: a town, an administrative region and a
\* country, and up to MaxAliasRows alias rows of every name type, with a
\* missing, matching or foreign language, on a known or unknown place.
IndexAliasRows ==
    {Alias(id, <<"b">>, t, l) :
        id \in {2, 3, 9}, t \in {"P", "Q", "V", "A", "S", "X"},
        l \in {NoLang, "ENG", "FRE"}}

Chain(name2, lang2) ==
    2 :> Place("US", name2, lang2, "Town", 3)
    @@ 3 :> Place("US", <<"m">>, "ENG", "State", 4)
    @@ 4 :> Place("US", <<"u">>, "ENG", "Country", ROOT_ID)

InitIndex ==
    /\ \E t \in {"State", "County"} :
         places = [Chain(<<"a">>, "ENG") EXCEPT ![3].place_type = t]
    /\ alias_rows \in SeqsUpTo(IndexAliasRows, MaxAliasRows)
    /\ postal_codes = <<>>
    /\ country_names = NoCountryNames
    /\ FramesEmpty

\* Databases for the ancestor walk: three places whose parent links point
\* anywhere, at the root, at each other or at a place that does not exist.
InitWalk ==
    /\ \E parent \in [{2, 3, 4} -> {ROOT_ID, 2, 3, 4, 8}] :
         places = [id \in {2, 3, 4} |->
                      [Chain(<<"a">>, "ENG")[id] EXCEPT !.parent_id = parent[id]]]
    /\ alias_rows = <<>>
    /\ postal_codes = <<>>
    /\ country_names = NoCountryNames
    /\ FramesEmpty

\* The object is constructed and get_aliases is called on it.
NextIndex ==
    \/ Construct
    \/ \E id \in {2, 3, 9} : GetAliases(id)

SpecIndex == InitIndex /\ [][NextIndex]_vars

\* The object is constructed and get_place_hierarchy is called on it.
NextWalk ==
    \/ Construct
    \/ \E id \in {2, 3, 4, 9} : GetPlaceHierarchy(id)
    \/ WalkStep
    \/ WalkReturn

SpecWalk == InitWalk /\ [][NextWalk]_vars

PostalCode(id, lang, parent) ==
    [id |-> id, country |-> "US", code |-> <<"6">>, language |-> lang,
     place_type |-> "Zip", parent_id |-> parent]

UsNames(with_alpha3) ==
    [localized |-> (<<"us", "en">> :> <<"U", "S">>),
     alpha3 |-> IF with_alpha3 THEN ("us" :> <<"U", "S", "A">>) ELSE EmptyDict]

\* Databases for the languages: a town of any language under an English
\* state and country, with a Preferred alias of a missing, known or unknown
\* language and a Variant alias in the town's language; a second town whose
\* parent does not exist; up to MaxPostalCodes English or French postal
\* codes attached to either town.
InitLanguages ==
    /\ \E lang2 \in {"ENG", "FRE", "UNK"}, alias_lang \in {NoLang, "ENG", "FRE", "UNK", "XXX"} :
         /\ places = Chain(<<"a">>, lang2) @@ 6 :> Place("US", <<"d">>, "ENG", "Town", 8)
         /\ alias_rows = <<Alias(2, <<"b">>, "P", alias_lang), Alias(2, <<"c">>, "V", lang2)>>
    /\ \E n \in 1..MaxPostalCodes :
         \E lang \in [1..n -> {"ENG", "FRE"}], parent \in [1..n -> {2, 6}] :
             postal_codes = [k \in 1..n |-> PostalCode(k, lang[k], parent[k])]
    /\ \E with_alpha3 \in BOOLEAN : country_names = UsNames(with_alpha3)
    /\ FramesEmpty

NameChars == {"a", " ", ",", "-"}

Names == SeqsUpTo(NameChars, MaxNameLen) \ {<<>>}

\* Databases for the names: every place name, or every alias name, of up to
\* MaxNameLen characters on an English town with one English postal code.
InitNames ==
    /\ \E name \in Names, on_place \in BOOLEAN :
         /\ places = Chain(IF on_place THEN name ELSE <<"a">>, "ENG")
         /\ alias_rows = <<Alias(2, IF on_place THEN <<"b">> ELSE name, "P", "ENG")>>
    /\ postal_codes = <<PostalCode(1, "ENG", 2)>>
    /\ country_names = UsNames(TRUE)
    /\ FramesEmpty

Init == InitLanguages \/ InitNames

\* The script: the object is constructed and build_training_data runs.
Next ==
    \/ Construct
    \/ BuildTrainingData
    \/ NextPostalCode
    \/ WalkStep
    \/ WalkReturn
    \/ AggregatePlace
    \/ AggregateAlias
    \/ \E k \in todo : InjectCountry(k)
    \/ EmitVariant
    \/ EndOfPostalCodes

Spec == Init /\ [][Next]_vars

----------------------------------------------------------------------------
(* Claims about the alias index *)

RECURSIVE IsSubseq(_, _)
IsSubseq(s, t) ==
    IF s = <<>> THEN TRUE
    ELSE IF t = <<>> THEN FALSE
    ELSE IF Head(s) = Head(t) THEN IsSubseq(Tail(s), Tail(t))
    ELSE IsSubseq(s, Tail(t))

RECURSIVE SelectRank(_, _)
SelectRank(s, r) ==
    IF s = <<>> THEN <<>>
    ELSE IF NameTypeRank(Head(s).name_type) = r
         THEN <<Head(s)>> \o SelectRank(Tail(s), r)
         ELSE SelectRank(Tail(s), r)

Returned == pc = "ready" /\ result.op = "get_aliases"

\* The table's rows of one place, as row[1:], in row order.
RowsOf(id) == Tails(Filter([k \in 1..Len(alias_rows) |-> k],
                           {k \in 1..Len(alias_rows) : alias_rows[k].id = id}))

\* C1 as stated: the list returned by get_aliases is ordered by name_type
\* priority P < Q < V < A < S < other, and aliases of equal priority keep
\* their row order.
C1_PriorityOrder ==
    Returned =>
        /\ \A a, b \in 1..Len(result.value) :
              a < b => NameTypeRank(result.value[a].name_type)
                          <= NameTypeRank(result.value[b].name_type)
        /\ \A r \in 1..6 :
              IsSubseq(SelectRank(result.value, r), SelectRank(RowsOf(result.arg), r))

\* C1 amended: the list is ordered by language first and by priority
\* P < Q < A < other within one language; the Variant aliases kept by the
\* second pass come after all of these; no Colloquial alias appears.
C1_LanguageThenPriority ==
    Returned =>
        \A a, b \in 1..Len(result.value) :
            LET x == result.value[a]
                y == result.value[b]
            IN  /\ x.name_type # "S"
                /\ a < b =>
                    /\ x.name_type = "V" => y.name_type = "V"
                    /\ (x.name_type # "V" /\ y.name_type # "V") =>
                        /\ LangRank(x.language) <= LangRank(y.language)
                        /\ x.language = y.language =>
                              NameTypeRank(x.name_type) <= NameTypeRank(y.name_type)

\* C1 witness: a returned list in which an Abbreviated alias precedes a
\* Preferred alias of a later language, or precedes a kept Variant alias.
C1_Witness ==
    /\ Returned
    /\ \E a, b \in 1..Len(result.value) :
          /\ a < b
          /\ result.value[a].name_type = "A"
          /\ result.value[b].name_type \in {"P", "V"}

KnownPlace(id) == id \in DOMAIN places

AdminPlace(id) == KnownPlace(id) /\ places[id].place_type \in {"State", "County"}

Count(s, x) == Cardinality({k \in 1..Len(s) : s[k] = x})

\* C7 as stated: every Preferred, PreferredForeign or Abbreviated alias of a
\* known place is returned whatever the place type and language, and every
\* Colloquial alias of a known place that is not a State/County is returned.
C7_OnlyForeignAdminDropped ==
    Returned =>
        \A k \in 1..Len(alias_rows) :
            (/\ alias_rows[k].id = result.arg
             /\ KnownPlace(result.arg)
             /\ \/ alias_rows[k].name_type \in {"P", "Q", "A"}
                \/ alias_rows[k].name_type = "S" /\ ~AdminPlace(result.arg))
            => AliasTail(k) \in Range(result.value)

\* A row the first pass removes: unknown place, Colloquial or Variant type,
\* or a State/County place whose language differs from the alias's.
C7_Removed(k) ==
    \/ ~KnownPlace(alias_rows[k].id)
    \/ alias_rows[k].name_type \in {"S", "V"}
    \/ /\ AdminPlace(alias_rows[k].id)
       /\ alias_rows[k].language # NoLang
       /\ alias_rows[k].language # places[alias_rows[k].id].language

\* C7 amended: the first pass removes exactly the rows of C7_Removed, so the
\* non-Variant part of get_aliases(id) holds each other row of the place as
\* often as the table does, and nothing else; no Colloquial alias is returned.
C7_Pass1Removes ==
    Returned =>
        /\ \A k \in 1..Len(alias_rows) :
              (alias_rows[k].id = result.arg /\ ~C7_Removed(k)) =>
                  Count(result.value, AliasTail(k)) = Count(RowsOf(result.arg), AliasTail(k))
        /\ \A a \in 1..Len(result.value) :
              /\ result.value[a].name_type # "S"
              /\ result.value[a].name_type # "V" =>
                    \E k \in 1..Len(alias_rows) :
                        /\ alias_rows[k].id = result.arg
                        /\ ~C7_Removed(k)
                        /\ AliasTail(k) = result.value[a]

\* C7 witness: get_aliases on an administrative place returned a Preferred
\* alias while another row of that place (foreign-language, Colloquial or
\* Variant) was removed.
C7_Witness ==
    /\ Returned
    /\ AdminPlace(result.arg)
    /\ \E a \in 1..Len(result.value) : result.value[a].name_type \in {"P", "Q", "A"}
    /\ \E k \in 1..Len(alias_rows) :
          /\ alias_rows[k].id = result.arg
          /\ C7_Removed(k)
          /\ AliasTail(k) \notin Range(result.value)

----------------------------------------------------------------------------
(* Claims about the ancestor walk *)

AllParentsResolve ==
    \A id \in DOMAIN places : places[id].parent_id \in DOMAIN places \cup {ROOT_ID}

\* C2 as stated: in a store whose parent references all resolve, the list
\* accumulated by get_place_hierarchy never holds a place id twice.
C2_NoRepeatedPlace ==
    (pc = "walk" /\ AllParentsResolve) =>
        \A a, b \in 1..Len(all_places) :
            all_places[a].place_id = all_places[b].place_id => a = b

----------------------------------------------------------------------------
(* Claims about aggregation and generation *)

\* The records of the current bucket are being yielded.
Emitting == pc = "product"

\* The product loop of the current bucket has finished.
BucketDone ==
    /\ pc \in {"buckets", "postal_codes", "done"}
    /\ [row |-> row, bucket |-> bucket, language |-> language] \in out

\* C3 as stated: after injection every candidate of every category of the
\* bucket is non-empty, not whitespace-only, and neither starts nor ends
\* with a space, comma or hyphen.
C3_CandidatesCleaned ==
    Emitting =>
        \A cat \in DOMAIN language_places[bucket] :
            \A name \in language_places[bucket][cat] :
                /\ name # <<>>
                /\ \E k \in 1..Len(name) : name[k] # " "
                /\ name[1] \notin cleanup_chars
                /\ name[Len(name)] \notin cleanup_chars

RECURSIVE ProductSize(_)
ProductSize(cp) ==
    IF DOMAIN cp = {} THEN 1
    ELSE LET c == CHOOSE c \in DOMAIN cp : TRUE
         IN  Cardinality(cp[c]) * ProductSize([d \in DOMAIN cp \ {c} |-> cp[d]])

\* C4 as stated: a bucket yields exactly n1*...*nk full records and at most
\* one dropout record.
C4_OneDropoutPerBucket ==
    BucketDone =>
        /\ n_full = ProductSize(language_places[bucket])
        /\ n_dropout <= 1

\* C4 amended: a bucket yields exactly n1*...*nk full records, each with
\* Postcode set to the postal code, and at most one dropout record for each
\* of them.
C4_OneDropoutPerTuple ==
    /\ BucketDone =>
        /\ n_full = ProductSize(language_places[bucket])
        /\ n_dropout <= n_full
    /\ (Emitting /\ n_full > 0) =>
        /\ n_dropout <= n_full
        /\ n_full + Len(tuples) = ProductSize(language_places[bucket])
        /\ last.kind = "full" =>
            /\ last.components[POSTCODE] = PostcodeRow.code
            /\ DOMAIN last.components = DOMAIN language_places[bucket] \cup {POSTCODE}
            /\ \A c \in DOMAIN language_places[bucket] :
                  last.components[c] \in language_places[bucket][c]

\* C4 witness: a finished bucket of several categories and more than one
\* tuple that yielded two dropout records.
C4_Witness ==
    /\ BucketDone
    /\ Cardinality(DOMAIN language_places[bucket]) >= 3
    /\ n_full >= 4
    /\ n_dropout >= 2

\* C5 as stated: a postal code whose processing fails is skipped and the
\* batch goes on; no failure inside the batch ends the program.
C5_FailureIsolated ==
    pc = "crashed" => row = 0

\* C6 as stated: when the country has an alpha-3 code, the bucket's Country
\* set holds it after injection exactly when the bucket's language, the
\* default language substituted, is unspecified or English.
C6_Alpha3IffEnglish ==
    (Emitting /\ alpha3_code(country) # NoName) =>
        ((/\ COUNTRY \in DOMAIN language_places[bucket]
          /\ alpha3_code(country) \in language_places[bucket][COUNTRY])
         <=> language \in {None, "en"})

\* The default language of the claim: the mapped language of the first
\* ancestor, in walk order, whose language differs from the postal code's.
RECURSIVE FirstDiffering(_, _)
FirstDiffering(h, postcode_language) ==
    IF h = <<>> THEN postcode_language
    ELSE IF Head(h).language # postcode_language THEN Head(h).language
    ELSE FirstDiffering(Tail(h), postcode_language)

\* C8 as stated: the records of the bucket keyed unspecified carry the
\* default language.
C8_DefaultLanguageLabel ==
    (Emitting /\ bucket = None /\ n_full > 0) =>
        last.language = language_codes[FirstDiffering(all_places, PostcodeRow.language)]

\* C9: an alias with a missing language counts as unknown; an alias in its
\* place's own known language adds its cleaned name to the default bucket
\* under the place's category; any other alias adds it to the bucket keyed
\* by its mapped language and leaves the default bucket as it was.
C9_AliasRouting ==
    [][(pc = "aliases" /\ pc' # "crashed") =>
        LET h == all_places[hpos]
            a == get_aliases(h.place_id)[apos]
            al == IF a.language = NoLang THEN "UNK" ELSE a.language
            cat == place_types[h.place_type]
            own == al = h.language /\ h.language # "UNK"
            key == IF own THEN None ELSE language_codes[al]
        IN  /\ key \in DOMAIN language_places'
            /\ cat \in DOMAIN language_places'[key]
            /\ cleanup_name(a.name) \in language_places'[key][cat]
            /\ ~own => /\ key # None
                       /\ language_places'[None] = language_places[None]
            /\ \A k \in DOMAIN language_places' \ {key} :
                  k \in DOMAIN language_places /\ language_places'[k] = language_places[k]
            /\ \A c \in DOMAIN language_places'[key] \ {cat} :
                  /\ key \in DOMAIN language_places
                  /\ c \in DOMAIN language_places[key]
                  /\ language_places'[key][c] = language_places[key][c]
       ]_vars

\* C9 witness: the aliases of the town have been aggregated, one into a
\* bucket of its own language and one into the default bucket.
C9_Witness ==
    /\ pc = "places"
    /\ hpos = 2
    /\ "fr" \in DOMAIN language_places
    /\ <<"b">> \in language_places["fr"]["city"]
    /\ <<"c">> \in language_places[None]["city"]

\* C10 as stated: no two buckets of one postal code are emitted under the
\* same language.
C10_OneBucketPerLanguage ==
    \A x, y \in out :
        (x.row = y.row /\ x.language = y.language) => x.bucket = y.bucket

====
